---- MODULE Spec2Model ----
(***************************************************************************)
(* Model of the shapetypes intersection dispatch (Intersection.line,       *)
(* Intersection.ray, Intersection.polyline) and of Polygon (construction,  *)
(* containment, boolean composition).                                      *)
(*                                                                         *)
(* Coordinates are integers.  Parameters along a line, ray or polyline are *)
(* exact rationals <<n, d>> in lowest terms with d > 0, so that the        *)
(* equality the code uses for deduplication and the order it sorts by are  *)
(* the arithmetic ones.                                                    *)
(***************************************************************************)
EXTENDS Integers, Sequences, FiniteSets, TLC

VARIABLES call, ret, held

vars == <<call, ret, held>>

-----------------------------------------------------------------------------
(* Bounds of the model                                                     *)

\* largest coordinate of the grid the catalogued shapes live on
Grid == 2
\* longest list target handed to the dispatch functions, and longest list
\* operand handed to the boolean operations
MaxList == 2
\* most holes a polygon is constructed with
MaxHoles == 2
\* most pieces the clipping primitive returns
MaxPieces == 2
\* largest coordinate of the points tested for containment
Extent == 8

-----------------------------------------------------------------------------
(* Exact rational arithmetic for parameters                                *)

Abs(a) == IF a < 0 THEN -a ELSE a

RECURSIVE Gcd(_, _)
Gcd(a, b) == IF b = 0 THEN a ELSE Gcd(b, a % b)

\* the rational n/d (d # 0) in lowest terms with a positive denominator
Rat(n, d) ==
  LET g == Gcd(Abs(n), Abs(d))
      s == IF d < 0 THEN -1 ELSE 1
  IN  <<(s * n) \div g, (s * d) \div g>>

RatInt(i) == <<i, 1>>
RatLess(a, b) == a[1] * b[2] < b[1] * a[2]
RatLeq(a, b) == a[1] * b[2] <= b[1] * a[2]
RatSub(a, b) == Rat(a[1] * b[2] - b[1] * a[2], a[2] * b[2])
\* i + u for an integer i, as the polyline query computes it
RatAddInt(i, u) == <<i * u[2] + u[1], u[2]>>
RatClamp01(a) ==
  IF a[1] < 0 THEN RatInt(0) ELSE IF a[1] > a[2] THEN RatInt(1) ELSE a

-----------------------------------------------------------------------------
(* Arrays: push(...xs), sort((a, b) => a - b), [...new Set(xs)]            *)

RECURSIVE InsertAsc(_, _)
InsertAsc(x, s) ==
  IF s = <<>> THEN <<x>>
  ELSE IF RatLess(x, Head(s)) THEN <<x>> \o s
  ELSE <<Head(s)>> \o InsertAsc(x, Tail(s))

\* Array.prototype.sort with the comparator (a, b) => a - b: stable, ascending
RECURSIVE SortAsc(_)
SortAsc(s) ==
  IF s = <<>> THEN <<>>
  ELSE InsertAsc(s[Len(s)], SortAsc(SubSeq(s, 1, Len(s) - 1)))

Range(s) == {s[i] : i \in 1..Len(s)}

\* [...new Set(s)]: the first occurrence of every value, in insertion order
RECURSIVE Unique(_)
Unique(s) ==
  IF s = <<>> THEN <<>>
  ELSE LET init == SubSeq(s, 1, Len(s) - 1)
           last == s[Len(s)]
       IN  IF last \in Range(init) THEN Unique(init)
           ELSE Unique(init) \o <<last>>

\* the array left in the order the hits were pushed
sortAscendingSkipped(intersections) == intersections

\* the comparator the wrong way round, (a, b) => b - a
sortDescending(intersections) ==
  [i \in 1..Len(SortAsc(intersections)) |->
     SortAsc(intersections)[Len(intersections) + 1 - i]]

\* intersections.sort((a, b) => a - b)
sortAscending(intersections) == SortAsc(intersections)

\* every hit kept, equal ones included
uniqueSkipped(intersections) == intersections

\* [...new Set(intersections)]
unique(intersections) == Unique(intersections)

RECURSIVE Flatten(_)
Flatten(ss) == IF ss = <<>> THEN <<>> ELSE Head(ss) \o Flatten(Tail(ss))

-----------------------------------------------------------------------------
(* Shapes                                                                  *)

Pt(x, y) == [x |-> x, y |-> y]
Sub(p, q) == [x |-> p.x - q.x, y |-> p.y - q.y]
Cross(u, v) == u.x * v.y - u.y * v.x
Dot(u, v) == u.x * v.x + u.y * v.y

Point(x, y) == [kind |-> "Point", p |-> Pt(x, y)]
Line(a, b) == [kind |-> "Line", from |-> a, to |-> b]
Ray(a, d) == [kind |-> "Ray", from |-> a, direction |-> d]
BoundingBox(x0, x1, y0, y1) ==
  [kind |-> "BoundingBox", xmin |-> x0, xmax |-> x1, ymin |-> y0, ymax |-> y1]
Rectangle(x0, x1, y0, y1) ==
  [kind |-> "Rectangle", xmin |-> x0, xmax |-> x1, ymin |-> y0, ymax |-> y1]
Polyline(pts, isClosed) ==
  [kind |-> "Polyline", points |-> pts, isClosed |-> isClosed]

\* emits: the order in which the circle solver lists two hits on this circle
Circle(c, r, emits) ==
  [kind |-> "Circle", center |-> c, radius |-> r, emits |-> emits]
\* a value of none of the eight shape kinds; hasBox: it has a boundingBox property
Unknown(hasBox, box) == [kind |-> "Unknown", hasBox |-> hasBox, box |-> box]
Array(items) == [kind |-> "Array", items |-> items]

\* Polyline.segments: a Line per consecutive pair of points, wrapping if closed
segments(pl) ==
  LET n == Len(pl.points)
      open == [i \in 1..(n - 1) |-> Line(pl.points[i], pl.points[i + 1])]
  IN  IF pl.isClosed /\ n > 1
      THEN open \o <<Line(pl.points[n], pl.points[1])>>
      ELSE open

Min(S) == CHOOSE a \in S : \A b \in S : a <= b
Max(S) == CHOOSE a \in S : \A b \in S : a >= b

\* BoundingBox.toPolyline / Rectangle.toPolyline: the closed polyline through
\* (min,min), (max,min), (max,max), (min,max)
toPolyline(b) ==
  Polyline(<<Pt(b.xmin, b.ymin), Pt(b.xmax, b.ymin),
             Pt(b.xmax, b.ymax), Pt(b.xmin, b.ymax)>>, TRUE)

BoxOfPoints(S) ==
  BoundingBox(Min({p.x : p \in S}), Max({p.x : p \in S}),
              Min({p.y : p \in S}), Max({p.y : p \in S}))

\* the boundingBox getter of every shape that has one
boundingBox(g) ==
  CASE g.kind = "Line" -> BoxOfPoints({g.from, g.to})
    [] g.kind = "BoundingBox" -> g
    [] g.kind = "Rectangle" -> BoundingBox(g.xmin, g.xmax, g.ymin, g.ymax)
    [] g.kind = "Circle" ->
         BoundingBox(g.center.x - g.radius, g.center.x + g.radius,
                     g.center.y - g.radius, g.center.y + g.radius)
    [] g.kind = "Polyline" -> BoxOfPoints(Range(g.points))
    [] g.kind = "Polygon" -> BoxOfPoints(Range(g.boundary.points))
    [] g.kind = "Unknown" -> g.box

\* BoundingBox.overlaps: the x-ranges and the y-ranges both share a value
overlaps(a, b) ==
  /\ a.xmin <= b.xmax /\ b.xmin <= a.xmax
  /\ a.ymin <= b.ymax /\ b.ymin <= a.ymax

\* the point is in the box widened by the tolerance on every side
withinRanges(b, p, tol) ==
  /\ b.xmin - tol <= p.x /\ p.x <= b.xmax + tol
  /\ b.ymin - tol <= p.y /\ p.y <= b.ymax + tol

\* the point is on an edge of the box
onEdge(b, p) ==
  /\ withinRanges(b, p, 0)
  /\ p.x \in {b.xmin, b.xmax} \/ p.y \in {b.ymin, b.ymax}

\* strict mode taken for the other mode
boxContainsStrictIgnored(b, p, strict, tol) == withinRanges(b, p, tol)

\* BoundingBox.contains(point, strict, tolerance); the tolerance is in grid
\* units, and strict excludes the points on the edges of the box
boxContains(b, p, strict, tol) ==
  IF strict
  THEN withinRanges(b, p, tol) /\ ~onEdge(b, p)
  ELSE withinRanges(b, p, tol)

\* the value of a call that returns undefined
Undefined == [kind |-> "Undefined"]

\* IntervalSorted.intersection: the values two ranges share, if any
intervalIntersection(lo1, hi1, lo2, hi2) ==
  IF lo1 <= hi2 /\ lo2 <= hi1
  THEN [min |-> IF lo1 >= lo2 THEN lo1 ELSE lo2,
        max |-> IF hi1 <= hi2 THEN hi1 ELSE hi2]
  ELSE Undefined

\* only the x-ranges tested for an overlap
boxIntersectionXOnly(a, b) ==
  LET xRange == intervalIntersection(a.xmin, a.xmax, b.xmin, b.xmax)
  IN  IF xRange = Undefined THEN Undefined
      ELSE BoundingBox(xRange.min, xRange.max,
                       IF a.ymin >= b.ymin THEN a.ymin ELSE b.ymin,
                       IF a.ymax <= b.ymax THEN a.ymax ELSE b.ymax)

\* BoundingBox.intersection(a, b): the box of the shared x-range and the
\* shared y-range, undefined if either is missing
boxIntersection(a, b) ==
  LET xRange == intervalIntersection(a.xmin, a.xmax, b.xmin, b.xmax)
      yRange == intervalIntersection(a.ymin, a.ymax, b.ymin, b.ymax)
  IN  IF xRange = Undefined \/ yRange = Undefined THEN Undefined
      ELSE BoundingBox(xRange.min, xRange.max, yRange.min, yRange.max)

corners(b) ==
  {Pt(b.xmin, b.ymin), Pt(b.xmax, b.ymin), Pt(b.xmax, b.ymax), Pt(b.xmin, b.ymax)}

-----------------------------------------------------------------------------
(* The pairwise solvers.  Each answers whether the two shapes meet and the *)
(* parameter of the hit along each.                                        *)

Miss == [intersects |-> FALSE]

\* the hit of the carrier lines p + t*r and q + u*s: t and u must not be
\* negative, and must not exceed 1 where the shape is a finite segment
Solve(p, r, q, s, tBounded, uBounded) ==
  LET den == Cross(r, s)
      t == Rat(Cross(Sub(q, p), s), den)
      u == Rat(Cross(Sub(q, p), r), den)
      inT == t[1] >= 0 /\ (tBounded => t[1] <= t[2])
      inU == u[1] >= 0 /\ (uBounded => u[1] <= u[2])
  IN  IF den = 0 THEN Miss
      ELSE IF inT /\ inU THEN [intersects |-> TRUE, t |-> t, u |-> u]
      ELSE Miss

\* Intersection.lineLine(lineA, lineB): both limited to their finite segment
lineLine(a, b) ==
  LET h == Solve(a.from, Sub(a.to, a.from), b.from, Sub(b.to, b.from), TRUE, TRUE)
  IN  IF h.intersects
      THEN [intersects |-> TRUE, lineAU |-> h.t, lineBU |-> h.u]
      ELSE Miss

\* Intersection.rayLine(ray, line): the ray from its start onwards
rayLine(r, l) ==
  LET h == Solve(r.from, r.direction, l.from, Sub(l.to, l.from), FALSE, TRUE)
  IN  IF h.intersects
      THEN [intersects |-> TRUE, rayU |-> h.t, lineU |-> h.u]
      ELSE Miss

\* Intersection.rayRay(rayA, rayB)
rayRay(a, b) ==
  LET h == Solve(a.from, a.direction, b.from, b.direction, FALSE, FALSE)
  IN  IF h.intersects
      THEN [intersects |-> TRUE, rayAU |-> h.t, rayBU |-> h.u]
      ELSE Miss

\* the discriminant of |from + t*d - center|^2 = radius^2 as an equation in t
Discriminant(from, d, c) ==
  LET f == Sub(from, c.center)
  IN  4 * Dot(f, d) * Dot(f, d)
        - 4 * Dot(d, d) * (Dot(f, f) - c.radius * c.radius)

IsSquare(n) == \E k \in 0..n : k * k = n
Sqrt(n) == CHOOSE k \in 0..n : k * k = n

\* the hits of the carrier line from + t*d on the circle that are not before
\* the start and, for a finite segment, not after the end; two hits are listed
\* in the order the solver emits them
CircleHits(from, d, c, bounded) ==
  LET f == Sub(from, c.center)
      disc == Discriminant(from, d, c)
      lo == Rat(-2 * Dot(f, d) - Sqrt(disc), 2 * Dot(d, d))
      hi == Rat(-2 * Dot(f, d) + Sqrt(disc), 2 * Dot(d, d))
      inRange(t) == t[1] >= 0 /\ (bounded => t[1] <= t[2])
      keep(t) == IF inRange(t) THEN <<t>> ELSE <<>>
  IN  IF disc < 0 THEN <<>>
      ELSE IF disc = 0 THEN keep(lo)
      ELSE IF c.emits = "ascending" THEN keep(lo) \o keep(hi)
      ELSE keep(hi) \o keep(lo)

\* Intersection.lineCircle(line, circle)
lineCircle(l, c) == [u |-> CircleHits(l.from, Sub(l.to, l.from), c, TRUE)]

\* Intersection.rayCircle(ray, circle)
rayCircle(r, c) == [u |-> CircleHits(r.from, r.direction, c, FALSE)]

\* a line that only touches the box taken for one that misses it
lineBoxTouchMissed(l, b) ==
  LET d == Sub(l.to, l.from)
      side(c) == Cross(d, Sub(c, l.from))
  IN  [intersects |-> /\ \E c \in corners(b) : side(c) > 0
                      /\ \E c \in corners(b) : side(c) < 0]

\* Intersection.lineBox(line, box).intersects: the line's infinite extent
\* enters the box, i.e. the corners are not all strictly on one side of it
lineBox(l, b) ==
  LET d == Sub(l.to, l.from)
      side(c) == Cross(d, Sub(c, l.from))
  IN  [intersects |-> /\ \E c \in corners(b) : side(c) >= 0
                      /\ \E c \in corners(b) : side(c) <= 0]

\* Intersection.rayBox(ray, box).intersects: the ray starts in the box, or
\* meets one of its edges
rayBox(r, b) ==
  LET edges == segments(toPolyline(b))
      onRay(c) == Cross(r.direction, Sub(c, r.from)) = 0
                  /\ Dot(r.direction, Sub(c, r.from)) >= 0
  IN  [intersects |-> \/ boxContains(b, r.from, FALSE, 0)
                      \/ \E i \in 1..Len(edges) : rayLine(r, edges[i]).intersects
                      \/ \E c \in corners(b) : onRay(c)]

\* Line.closestParameter(point, true): the projection of the point on the
\* line, limited to the segment
closestParameter(l, p) ==
  LET d == Sub(l.to, l.from)
  IN  RatClamp01(Rat(Dot(Sub(p, l.from), d), Dot(d, d)))

\* Ray.closestParameter(point): the projection on the ray, not before its start
rayClosestParameter(r, p) ==
  LET t == Rat(Dot(Sub(p, r.from), r.direction), Dot(r.direction, r.direction))
  IN  IF t[1] < 0 THEN RatInt(0) ELSE t

\* pointAt(t) on a line or ray with start `from` and direction d, as a pair of
\* rational coordinates
pointAt(from, d, t) ==
  <<Rat(from.x * t[2] + t[1] * d.x, t[2]), Rat(from.y * t[2] + t[1] * d.y, t[2])>>

\* Point.equals
equals(q, p) == q = <<RatInt(p.x), RatInt(p.y)>>

-----------------------------------------------------------------------------
(* Polygon: construction                                                   *)

Ok(v) == [ok |-> TRUE, value |-> v]
Raise(e) == [ok |-> FALSE, error |-> e]

Reverse(s) == [i \in 1..Len(s) |-> s[Len(s) + 1 - i]]

\* twice the signed area of the loop through the points (shoelace formula)
RECURSIVE Shoelace(_, _)
Shoelace(pts, i) ==
  IF i > Len(pts) THEN 0
  ELSE LET a == pts[i]
           b == pts[IF i = Len(pts) THEN 1 ELSE i + 1]
       IN  Cross(a, b) + Shoelace(pts, i + 1)

SignedArea2(pl) == Shoelace(pl.points, 1)

\* Polyline.orientation of a closed polyline (world y-axis pointing upwards)
orientation(pl) ==
  IF SignedArea2(pl) > 0 THEN "counterclockwise"
  ELSE IF SignedArea2(pl) < 0 THEN "clockwise"
  ELSE "undefined"

\* Polyline.withOrientation: the polyline itself if it already winds that
\* way, else its points in reverse order
withOrientation(pl, goal) ==
  IF orientation(pl) = goal THEN pl
  ELSE Polyline(Reverse(pl.points), pl.isClosed)

RECURSIVE NewHoles(_)
NewHoles(holes) ==
  IF holes = <<>> THEN <<>>
  ELSE <<withOrientation(Head(holes), "clockwise")>> \o NewHoles(Tail(holes))

\* the constructor without its check of the holes
PolygonHolesUnchecked(boundary, holes) ==
  IF boundary.isClosed = FALSE
  THEN Raise("Error: Boundary must be closed to turn into polygon")
  ELSE Ok([kind |-> "Polygon",
           boundary |-> withOrientation(boundary, "counterclockwise"),
           holes |-> NewHoles(holes)])

\* new Polygon(boundary, holes); holes = <<>> also stands for holes omitted
\* (both leave _holes an empty array)
Polygon(boundary, holes) ==
  IF boundary.isClosed = FALSE
  THEN Raise("Error: Boundary must be closed to turn into polygon")
  ELSE IF \E i \in 1..Len(holes) : holes[i].isClosed = FALSE
  THEN Raise("Error: Hole must be closed to turn into polygon")
  ELSE Ok([kind |-> "Polygon",
           boundary |-> withOrientation(boundary, "counterclockwise"),
           holes |-> NewHoles(holes)])

\* Polyline.area: the area a closed polyline encloses, whichever way it
\* winds; 0 for an open polyline
polylineArea(pl) ==
  IF pl.isClosed THEN Rat(Abs(SignedArea2(pl)), 2) ELSE RatInt(0)

\* holes.reduce((accumulator, hole) => accumulator - hole.area, start)
RECURSIVE holesReduce(_, _, _)
holesReduce(holes, i, accumulator) ==
  IF i > Len(holes) THEN accumulator
  ELSE holesReduce(holes, i + 1, RatSub(accumulator, polylineArea(holes[i])))

\* Polygon.area
area(polygon) == holesReduce(polygon.holes, 1, polylineArea(polygon.boundary))

\* Polyline.fromCoords(ring): a ring whose last position repeats its first is
\* a closed polyline
polylineFromCoords(ring) ==
  IF Len(ring) > 1 /\ ring[1] = ring[Len(ring)]
  THEN Polyline(SubSeq(ring, 1, Len(ring) - 1), TRUE)
  ELSE Polyline(ring, FALSE)

\* Polyline.asGeoJSON(): the positions, the first repeated at the end of a
\* closed polyline
polylineAsGeoJSON(pl) ==
  IF pl.isClosed THEN pl.points \o <<pl.points[1]>> ELSE pl.points

\* fromCoords with its loop over the hole rings stopping one ring early
fromCoordsLastRingLost(coordinates) ==
  IF Len(coordinates) = 0
  THEN Raise("RangeError: Coordiante of polygon must have a length")
  ELSE IF Len(coordinates) = 1
  THEN Polygon(polylineFromCoords(coordinates[1]), <<>>)
  ELSE Polygon(polylineFromCoords(coordinates[1]),
               [i \in 1..(Len(coordinates) - 2) |->
                  polylineFromCoords(coordinates[i + 1])])

\* Polygon.fromCoords(coordinates)
fromCoords(coordinates) ==
  IF Len(coordinates) = 0
  THEN Raise("RangeError: Coordiante of polygon must have a length")
  ELSE IF Len(coordinates) = 1
  THEN Polygon(polylineFromCoords(coordinates[1]), <<>>)
  ELSE Polygon(polylineFromCoords(coordinates[1]),
               [i \in 1..(Len(coordinates) - 1) |->
                  polylineFromCoords(coordinates[i + 1])])

\* Polygon.asGeoJSON(): the boundary's ring, then the holes' rings
asGeoJSON(polygon) ==
  <<polylineAsGeoJSON(polygon.boundary)>>
    \o [i \in 1..Len(polygon.holes) |-> polylineAsGeoJSON(polygon.holes[i])]

\* Transform: the affine map (x, y) |-> (a*x + b*y + tx, c*x + d*y + ty)
Apply(change, p) ==
  Pt(change.a * p.x + change.b * p.y + change.tx,
     change.c * p.x + change.d * p.y + change.ty)

\* Polyline.transform(change)
polylineTransform(pl, change) ==
  Polyline([i \in 1..Len(pl.points) |-> Apply(change, pl.points[i])], pl.isClosed)

\* Polygon.transform(change)
transform(polygon, change) ==
  Polygon(polylineTransform(polygon.boundary, change),
          [i \in 1..Len(polygon.holes) |->
             polylineTransform(polygon.holes[i], change)])

-----------------------------------------------------------------------------
(* Polygon: containment                                                    *)

OnSegment(p, a, b) ==
  Cross(Sub(b, a), Sub(p, a)) = 0 /\ Dot(Sub(p, a), Sub(p, b)) <= 0

\* the segment a-b crosses the horizontal half-line from p to the right
CrossesRight(p, a, b) ==
  /\ (a.y > p.y) # (b.y > p.y)
  /\ IF b.y > a.y
     THEN (p.x - a.x) * (b.y - a.y) < (p.y - a.y) * (b.x - a.x)
     ELSE (p.x - a.x) * (b.y - a.y) > (p.y - a.y) * (b.x - a.x)

\* Polyline.contains(point, tolerance) of a closed polyline: coincident on a
\* segment, else inside or outside by the even-odd rule (on the integer grid
\* no point is within the tolerance of a segment without lying on it)
polylineContains(pl, p) ==
  LET segs == segments(pl)
      n == Cardinality({i \in 1..Len(segs) :
                          CrossesRight(p, segs[i].from, segs[i].to)})
  IN  IF \E i \in 1..Len(segs) : OnSegment(p, segs[i].from, segs[i].to)
      THEN "coincident"
      ELSE IF n % 2 = 1 THEN "inside" ELSE "outside"

\* the loop over the holes of Polygon.contains, from hole i on
RECURSIVE holeScan(_, _, _)
holeScan(holes, i, point) ==
  IF i > Len(holes) THEN "inside"
  ELSE IF polylineContains(holes[i], point) = "inside" THEN "outside"
  ELSE IF polylineContains(holes[i], point) = "coincident" THEN "coincident"
  ELSE holeScan(holes, i + 1, point)

\* contains looking for a hole the point is inside before looking for one it
\* is coincident with
containsInsideFirst(polygon, point) ==
  IF polylineContains(polygon.boundary, point) # "inside"
  THEN polylineContains(polygon.boundary, point)
  ELSE IF \E i \in 1..Len(polygon.holes) :
            polylineContains(polygon.holes[i], point) = "inside"
  THEN "outside"
  ELSE IF \E i \in 1..Len(polygon.holes) :
            polylineContains(polygon.holes[i], point) = "coincident"
  THEN "coincident"
  ELSE "inside"

\* Polygon.contains(point)
contains(polygon, point) ==
  IF polylineContains(polygon.boundary, point) # "inside"
  THEN polylineContains(polygon.boundary, point)
  ELSE holeScan(polygon.holes, 1, point)

-----------------------------------------------------------------------------
(* Polygon: boolean composition                                            *)

\* isPolylineArray(value) / isPolygonArray(value)
isPolylineArray(value) ==
  value.kind = "Array" /\ Len(value.items) > 0 /\ value.items[1].kind = "Polyline"
isPolygonArray(value) ==
  value.kind = "Array" /\ Len(value.items) > 0 /\ value.items[1].kind = "Polygon"

\* toMulti(input)
toMulti(input) ==
  IF input.kind = "Polyline" THEN Ok(<<polylineAsGeoJSON(input)>>)
  ELSE IF input.kind = "Polygon" THEN Ok(asGeoJSON(input))
  ELSE IF isPolylineArray(input)
  THEN Ok([i \in 1..Len(input.items) |-> <<polylineAsGeoJSON(input.items[i])>>])
  ELSE IF isPolygonArray(input)
  THEN Ok([i \in 1..Len(input.items) |-> asGeoJSON(input.items[i])])
  ELSE Raise("Error: Couldn't convert geometry for boolean")

\* fromGeoJSON(multi): Ok(the polygons), or what Polygon.fromCoords raises
RECURSIVE fromGeoJSON(_)
fromGeoJSON(multi) ==
  IF multi = <<>> THEN Ok(<<>>)
  ELSE IF Len(Head(multi)) = 0 THEN fromGeoJSON(Tail(multi))
  ELSE IF ~fromCoords(Head(multi)).ok THEN fromCoords(Head(multi))
  ELSE IF ~fromGeoJSON(Tail(multi)).ok THEN fromGeoJSON(Tail(multi))
  ELSE Ok(<<fromCoords(Head(multi)).value>> \o fromGeoJSON(Tail(multi)).value)

\* Polygon.union(joiner); pcResult is what the clipping primitive returns for
\* pcUnion(this.asGeoJSON(), toMulti(joiner))
union(polygon, joiner, pcResult) ==
  IF ~toMulti(joiner).ok THEN toMulti(joiner) ELSE fromGeoJSON(pcResult)

\* Polygon.intersection(intersector)
intersection(polygon, intersector, pcResult) ==
  IF ~toMulti(intersector).ok THEN toMulti(intersector) ELSE fromGeoJSON(pcResult)

\* Polygon.difference(subtractor)
difference(polygon, subtractor, pcResult) ==
  IF ~toMulti(subtractor).ok THEN toMulti(subtractor) ELSE fromGeoJSON(pcResult)

-----------------------------------------------------------------------------
(* Intersection dispatch                                                   *)

\* equal parameters reported once
linePolylineDeduplicated(theLine, thePolyline) ==
  LET segs == segments(thePolyline)
      hit(i) == LET result == lineLine(theLine, segs[i])
                IN  IF result.intersects THEN <<result.lineAU>> ELSE <<>>
  IN  Unique(Flatten([i \in 1..Len(segs) |-> hit(i)]))

\* linePolyline: the line's own parameter for every segment it meets
linePolyline(theLine, thePolyline) ==
  LET segs == segments(thePolyline)
      hit(i) == LET result == lineLine(theLine, segs[i])
                IN  IF result.intersects THEN <<result.lineAU>> ELSE <<>>
  IN  Flatten([i \in 1..Len(segs) |-> hit(i)])

\* rayPolyline: the ray's own parameter for every segment it meets
rayPolyline(theRay, thePolyline) ==
  LET segs == segments(thePolyline)
      hit(i) == LET result == rayLine(theRay, segs[i])
                IN  IF result.intersects THEN <<result.rayU>> ELSE <<>>
  IN  Flatten([i \in 1..Len(segs) |-> hit(i)])

\* Intersection.line(theLine, otherGeom)
RECURSIVE line(_, _)
line(theLine, otherGeom) ==
  CASE otherGeom.kind = "Array" ->
         sortAscending(Flatten([i \in 1..Len(otherGeom.items) |->
                                  line(theLine, otherGeom.items[i])]))
    [] otherGeom.kind = "Point" ->
         LET t == closestParameter(theLine, otherGeom.p)
             p == pointAt(theLine.from, Sub(theLine.to, theLine.from), t)
         IN  IF equals(p, otherGeom.p) THEN <<t>> ELSE <<>>
    [] otherGeom.kind = "Line" ->
         LET result == lineLine(theLine, otherGeom)
         IN  IF result.intersects THEN <<result.lineAU>> ELSE <<>>
    [] otherGeom.kind = "Ray" ->
         LET result == rayLine(otherGeom, theLine)
         IN  IF result.intersects THEN <<result.lineU>> ELSE <<>>
    [] otherGeom.kind = "BoundingBox" -> line(theLine, toPolyline(otherGeom))
    [] otherGeom.kind = "Circle" -> lineCircle(theLine, otherGeom).u
    [] otherGeom.kind = "Rectangle" -> line(theLine, toPolyline(otherGeom))
    [] otherGeom.kind = "Polyline" ->
         sortAscending(IF lineBox(theLine, boundingBox(otherGeom)).intersects
                       THEN linePolyline(theLine, otherGeom)
                       ELSE <<>>)
    [] otherGeom.kind = "Polygon" ->
         LET holeHits(i) ==
               IF lineBox(theLine, boundingBox(otherGeom.holes[i])).intersects
               THEN linePolyline(theLine, otherGeom.holes[i])
               ELSE <<>>
         IN  sortAscending(
               IF lineBox(theLine, boundingBox(otherGeom.boundary)).intersects
               THEN linePolyline(theLine, otherGeom.boundary)
                    \o Flatten([i \in 1..Len(otherGeom.holes) |-> holeHits(i)])
               ELSE <<>>)
    [] OTHER -> <<>>

\* Intersection.ray(theRay, otherGeom)
RECURSIVE ray(_, _)
ray(theRay, otherGeom) ==
  CASE otherGeom.kind = "Array" ->
         sortAscending(Flatten([i \in 1..Len(otherGeom.items) |->
                                  ray(theRay, otherGeom.items[i])]))
    [] otherGeom.kind = "Point" ->
         LET t == rayClosestParameter(theRay, otherGeom.p)
             p == pointAt(theRay.from, theRay.direction, t)
         IN  IF equals(p, otherGeom.p) THEN <<t>> ELSE <<>>
    [] otherGeom.kind = "Line" ->
         LET result == rayLine(theRay, otherGeom)
         IN  IF result.intersects THEN <<result.rayU>> ELSE <<>>
    [] otherGeom.kind = "Ray" ->
         LET result == rayRay(theRay, otherGeom)
         IN  IF result.intersects THEN <<result.rayAU>> ELSE <<>>
    [] otherGeom.kind = "BoundingBox" -> ray(theRay, toPolyline(otherGeom))
    [] otherGeom.kind = "Circle" -> rayCircle(theRay, otherGeom).u
    [] otherGeom.kind = "Rectangle" -> ray(theRay, toPolyline(otherGeom))
    [] otherGeom.kind = "Polyline" ->
         sortAscending(IF rayBox(theRay, boundingBox(otherGeom)).intersects
                       THEN rayPolyline(theRay, otherGeom)
                       ELSE <<>>)
    [] otherGeom.kind = "Polygon" ->
         LET holeHits(i) ==
               IF rayBox(theRay, boundingBox(otherGeom.holes[i])).intersects
               THEN rayPolyline(theRay, otherGeom.holes[i])
               ELSE <<>>
         IN  sortAscending(
               IF rayBox(theRay, boundingBox(otherGeom.boundary)).intersects
               THEN rayPolyline(theRay, otherGeom.boundary)
                    \o Flatten([i \in 1..Len(otherGeom.holes) |-> holeHits(i)])
               ELSE <<>>)
    [] OTHER -> <<>>

\* the shapes that have a boundingBox property
hasBoundingBox(g) == g.kind # "Unknown" \/ g.hasBox

\* the per-segment loop of Intersection.polyline: i + num for every num that
\* Intersection.line reports on segment i (segments counted from 0)
segmentHits(thePolyline, otherGeom) ==
  LET segs == segments(thePolyline)
      offset(i) == LET hits == line(segs[i], otherGeom)
                   IN  [k \in 1..Len(hits) |-> RatAddInt(i - 1, hits[k])]
  IN  Flatten([i \in 1..Len(segs) |-> offset(i)])

\* Intersection.polyline(thePolyline, otherGeom): Ok(parameters), or the
\* TypeError of reading the ranges of a boundingBox that is undefined
RECURSIVE polyline(_, _)
polyline(thePolyline, otherGeom) ==
  IF otherGeom.kind = "Array"
  THEN LET each == [i \in 1..Len(otherGeom.items) |->
                      polyline(thePolyline, otherGeom.items[i])]
       IN  IF \E i \in 1..Len(each) : ~each[i].ok
           THEN Raise("TypeError")
           ELSE Ok(sortAscending(Flatten([i \in 1..Len(each) |-> each[i].value])))
  ELSE IF otherGeom.kind = "Point"
          /\ ~boxContains(boundingBox(thePolyline), otherGeom.p, FALSE, 0)
  THEN Ok(<<>>)
  ELSE IF otherGeom.kind = "BoundingBox"
          /\ ~overlaps(boundingBox(thePolyline), otherGeom)
  THEN Ok(<<>>)
  ELSE IF otherGeom.kind \notin {"Point", "BoundingBox", "Ray"}
          /\ ~hasBoundingBox(otherGeom)
  THEN Raise("TypeError")
  ELSE IF otherGeom.kind \notin {"Point", "BoundingBox", "Ray"}
          /\ ~overlaps(boundingBox(thePolyline), boundingBox(otherGeom))
  THEN Ok(<<>>)
  ELSE Ok(sortAscending(unique(segmentHits(thePolyline, otherGeom))))

-----------------------------------------------------------------------------
(* The shapes the dispatch functions are called with                       *)

GridPts == {Pt(x, y) : x \in 0..Grid, y \in 0..Grid}
Dirs == {Pt(dx, dy) : dx \in {-1, 0, 1}, dy \in {-1, 0, 1}} \ {Pt(0, 0)}
Before(a, b) == a.x < b.x \/ (a.x = b.x /\ a.y < b.y)

\* the lines of the grid, each in one direction (polylines below run both ways)
\* a line through a box from left to right, starting and ending outside it
ExampleLine == Line(Pt(-1, 1), Pt(5, 1))
ExampleBox == BoundingBox(0, 4, 0, 4)

QueryLines ==
  {l \in {Line(a, b) : a \in GridPts, b \in GridPts} : Before(l.from, l.to)}
    \cup {ExampleLine}
QueryRays == {Ray(a, d) : a \in GridPts, d \in Dirs}

\* the vertices polylines are drawn through: three corners and an inner point
Vertices == {Pt(0, 0), Pt(Grid, 0), Pt(Grid, Grid), Pt(1, 1)}
Paths == {<<a, b, c>> : a \in Vertices, b \in Vertices, c \in Vertices}
Polylines ==
  {Polyline(pts, cl) : pts \in {p \in Paths : Cardinality(Range(p)) = 3},
                       cl \in BOOLEAN}

\* closed loops of non-zero area, for polygons
Loops == {pl \in Polylines : pl.isClosed /\ SignedArea2(pl) # 0}
\* holes: one below the inner point, and one to its right that reaches above
\* the boundaries drawn below the inner point
HoleLoops ==
  {pl \in Loops : pl.points \in {<<Pt(1, 1), Pt(0, 0), Pt(Grid, 0)>>,
                                 <<Pt(1, 1), Pt(Grid, 0), Pt(Grid, Grid)>>}}
Polygons ==
  LET squareLoop == toPolyline(BoundingBox(0, Grid, 0, Grid))
      bounds == UNION {{squareLoop, Polyline(Reverse(squareLoop.points), TRUE)},
                       {pl \in Loops : pl.points[1] = Pt(0, 0)}}
      holeLists == UNION {{<<>>}, {<<h>> : h \in HoleLoops},
                          {<<h, k>> : h \in HoleLoops, k \in HoleLoops}}
  IN  {Polygon(b, hs).value : b \in bounds, hs \in holeLists}

\* the circle through (0,0), (1,1), (0,2) and (-1,1), with either order of the
\* solver's answers; it is a target of the queries whose hits on it are rational
Representable(q, c) ==
  LET d == IF q.kind = "Ray" THEN q.direction ELSE Sub(q.to, q.from)
      disc == Discriminant(q.from, d, c)
  IN  disc < 0 \/ IsSquare(disc)
Circles(queries) ==
  {c \in {Circle(Pt(0, 1), 1, e) : e \in {"ascending", "descending"}} :
     \A q \in queries : Representable(q, c)}

Unknowns == {Unknown(b, BoundingBox(0, Grid, 0, Grid)) : b \in BOOLEAN}

Boxes ==
  {BoundingBox(x[1], x[2], y[1], y[2]) :
     x \in {r \in (0..Grid) \X (0..Grid) : r[1] <= r[2]},
     y \in {r \in (0..Grid) \X (0..Grid) : r[1] <= r[2]}}
    \cup {ExampleBox}
Rectangles == {Rectangle(0, x1, 0, y1) : x1 \in 1..Grid, y1 \in 1..Grid}

SingleTargets(queries) ==
  UNION {{Point(p.x, p.y) : p \in GridPts},
         QueryLines,
         QueryRays, Boxes, Rectangles, Circles(queries),
         Polylines, Polygons, Unknowns}

\* the shapes list targets are made of
ListPool(queries) ==
  UNION {{Point(0, 0), Line(Pt(0, 0), Pt(Grid, Grid)),
          BoundingBox(0, 1, 0, Grid),
          Polyline(<<Pt(0, 0), Pt(1, 1), Pt(Grid, 0)>>, FALSE)},
         {c \in Circles(queries) : c.emits = "descending"}}

RECURSIVE SeqsUpTo(_, _)
SeqsUpTo(S, n) ==
  IF n = 0 THEN {<<>>}
  ELSE LET shorter == SeqsUpTo(S, n - 1)
       IN  shorter \cup {Append(s, x) : s \in {t \in shorter : Len(t) = n - 1}, x \in S}

Targets(queries) ==
  SingleTargets(queries)
    \cup {Array(items) : items \in SeqsUpTo(ListPool(queries), MaxList)}

-----------------------------------------------------------------------------
(* The caller: one call of the library after another                       *)

NoPolygon == [kind |-> "None"]

Idle == [fn |-> "none"]

Init ==
  /\ call = Idle
  /\ ret = Ok(<<>>)
  /\ held = NoPolygon

CallLine ==
  /\ call = Idle
  /\ \E theLine \in QueryLines :
       \E otherGeom \in Targets({theLine}) :
         /\ call' = [fn |-> "line", query |-> theLine, target |-> otherGeom]
         /\ ret' = Ok(line(theLine, otherGeom))
         /\ UNCHANGED held

CallRay ==
  /\ call = Idle
  /\ \E theRay \in QueryRays :
       \E otherGeom \in Targets({theRay}) :
         /\ call' = [fn |-> "ray", query |-> theRay, target |-> otherGeom]
         /\ ret' = Ok(ray(theRay, otherGeom))
         /\ UNCHANGED held

CallPolyline ==
  /\ call = Idle
  /\ \E thePolyline \in Polylines :
       \E otherGeom \in Targets(Range(segments(thePolyline))) :
         /\ call' = [fn |-> "polyline", query |-> thePolyline, target |-> otherGeom]
         /\ ret' = polyline(thePolyline, otherGeom)
         /\ UNCHANGED held

\* the caller is done with the result of the last call
Discard ==
  /\ call # Idle
  /\ call' = Idle
  /\ ret' = Ok(<<>>)
  /\ UNCHANGED held

Next == CallLine \/ CallRay \/ CallPolyline \/ Discard

Spec == Init /\ [][Next]_vars

-----------------------------------------------------------------------------
(* The caller of the bounding box operations                               *)

\* points on the grid and one step around it
BoxPoints == {Pt(x, y) : x \in -1..(Grid + 1), y \in -1..(Grid + 1)}
Tolerances == {0, 1}

BoxIntersection ==
  /\ call = Idle
  /\ \E a \in Boxes :
       \E b \in Boxes :
         /\ call' = [fn |-> "boxIntersection", a |-> a, b |-> b]
         /\ ret' = Ok(boxIntersection(a, b))
         /\ UNCHANGED held

BoxContains ==
  /\ call = Idle
  /\ \E box \in Boxes :
       \E point \in BoxPoints :
         \E strict \in BOOLEAN :
           \E tolerance \in Tolerances :
             /\ call' = [fn |-> "boxContains", box |-> box, point |-> point,
                         strict |-> strict, tolerance |-> tolerance]
             /\ ret' = Ok(boxContains(box, point, strict, tolerance))
             /\ UNCHANGED held

BoxNext == BoxIntersection \/ BoxContains \/ Discard

BoxSpec == Init /\ [][BoxNext]_vars

-----------------------------------------------------------------------------
(* The shapes polygons are made of.  Coordinates are in half units, so     *)
(* that the square (0,0)-(4,4) is Outer and the point (0.5,0.5) is Pt(1,1). *)

Outer == Polyline(<<Pt(0, 0), Pt(8, 0), Pt(8, 8), Pt(0, 8)>>, TRUE)
OuterClockwise == Polyline(Reverse(Outer.points), TRUE)
OuterOpen == Polyline(Outer.points, FALSE)
Triangle == Polyline(<<Pt(0, 0), Pt(8, 0), Pt(0, 8)>>, TRUE)
HoleA == Polyline(<<Pt(2, 2), Pt(6, 2), Pt(6, 6), Pt(2, 6)>>, TRUE)
HoleB == Polyline(<<Pt(4, 4), Pt(4, 7), Pt(7, 7), Pt(7, 4)>>, TRUE)
HoleOpen == Polyline(<<Pt(2, 2), Pt(6, 2), Pt(6, 6)>>, FALSE)

\* a closed polyline along a straight line: it encloses no area
Flat == Polyline(<<Pt(0, 0), Pt(4, 0), Pt(8, 0)>>, TRUE)

BoundaryInputs == {Outer, OuterClockwise, OuterOpen, HoleA, Flat}
HoleInputs == {HoleA, HoleB, HoleOpen}

CoordInputs ==
  {<<>>} \cup
  {<<polylineAsGeoJSON(b)>> \o [i \in 1..Len(hs) |-> polylineAsGeoJSON(hs[i])] :
     b \in BoundaryInputs, hs \in SeqsUpTo(HoleInputs, MaxHoles)}

Mirror == [a |-> -1, b |-> 0, tx |-> 8, c |-> 0, d |-> 1, ty |-> 0]
\* the projection on the x-axis, a map that is not invertible
Collapse == [a |-> 1, b |-> 0, tx |-> 0, c |-> 0, d |-> 0, ty |-> 0]
Transforms == {Mirror, Collapse}

\* what the clipping primitive may return: pieces of closed rings of either
\* winding, some of them without rings
Pieces ==
  {<<>>,
   <<polylineAsGeoJSON(Triangle)>>,
   <<polylineAsGeoJSON(OuterClockwise), polylineAsGeoJSON(HoleB),
     polylineAsGeoJSON(HoleA)>>}
ClipResults == SeqsUpTo(Pieces, MaxPieces)

\* the operands of the boolean operations: a polyline, a polygon, a list of
\* polylines, a list of polygons, and a shape that is neither
Operands ==
  LET polygons == {Polygon(Outer, <<HoleA>>).value, Polygon(Triangle, <<>>).value}
  IN  UNION {{HoleA}, polygons,
             {Array(items) : items \in SeqsUpTo({HoleA}, MaxList)},
             {Array(items) : items \in SeqsUpTo({Polygon(Outer, <<HoleA>>).value},
                                                MaxList)},
             {Point(1, 1)}}

\* the primitive is called only with an operand that toMulti converted
ResultsFor(operand) == IF toMulti(operand).ok THEN ClipResults ELSE {<<>>}

ContainmentPoints == {Pt(x, y) : x \in 0..Extent, y \in 0..Extent}

Construct ==
  /\ call = Idle
  /\ \E boundary \in BoundaryInputs :
       \E holes \in SeqsUpTo(HoleInputs, MaxHoles) :
         /\ call' = [fn |-> "Polygon", boundary |-> boundary, holes |-> holes]
         /\ ret' = Polygon(boundary, holes)
         /\ held' = IF Polygon(boundary, holes).ok
                    THEN Polygon(boundary, holes).value
                    ELSE held

FromCoords ==
  /\ call = Idle
  /\ \E coordinates \in CoordInputs :
       /\ call' = [fn |-> "fromCoords", coordinates |-> coordinates]
       /\ ret' = fromCoords(coordinates)
       /\ held' = IF fromCoords(coordinates).ok
                  THEN fromCoords(coordinates).value
                  ELSE held

Transform ==
  /\ call = Idle
  /\ held # NoPolygon
  /\ \E change \in Transforms :
       /\ call' = [fn |-> "transform", polygon |-> held, change |-> change]
       /\ ret' = transform(held, change)
       /\ held' = transform(held, change).value

Contains ==
  /\ call = Idle
  /\ held # NoPolygon
  /\ \E point \in ContainmentPoints :
       /\ call' = [fn |-> "contains", polygon |-> held, point |-> point]
       /\ ret' = Ok(contains(held, point))
       /\ UNCHANGED held

Area ==
  /\ call = Idle
  /\ held # NoPolygon
  /\ call' = [fn |-> "area", polygon |-> held]
  /\ ret' = Ok(area(held))
  /\ UNCHANGED held

Union ==
  /\ call = Idle
  /\ held # NoPolygon
  /\ \E joiner \in Operands :
       \E pcResult \in ResultsFor(joiner) :
         /\ call' = [fn |-> "union", polygon |-> held, operand |-> joiner,
                     pcResult |-> pcResult]
         /\ ret' = union(held, joiner, pcResult)
         /\ UNCHANGED held

Intersection ==
  /\ call = Idle
  /\ held # NoPolygon
  /\ \E intersector \in Operands :
       \E pcResult \in ResultsFor(intersector) :
         /\ call' = [fn |-> "intersection", polygon |-> held,
                     operand |-> intersector, pcResult |-> pcResult]
         /\ ret' = intersection(held, intersector, pcResult)
         /\ UNCHANGED held

Difference ==
  /\ call = Idle
  /\ held # NoPolygon
  /\ \E subtractor \in Operands :
       \E pcResult \in ResultsFor(subtractor) :
         /\ call' = [fn |-> "difference", polygon |-> held,
                     operand |-> subtractor, pcResult |-> pcResult]
         /\ ret' = difference(held, subtractor, pcResult)
         /\ UNCHANGED held

IsBoolean == call.fn \in {"union", "intersection", "difference"}

\* the caller goes on with one of the polygons a boolean operation returned
Keep ==
  /\ IsBoolean
  /\ ret.ok
  /\ \E i \in 1..Len(ret.value) :
       /\ held' = ret.value[i]
       /\ call' = Idle
       /\ ret' = Ok(<<>>)

PolygonNext ==
  \/ Construct \/ FromCoords \/ Transform \/ Contains \/ Area
  \/ Union \/ Intersection \/ Difference \/ Keep \/ Discard

PolygonSpec == Init /\ [][PolygonNext]_vars

-----------------------------------------------------------------------------
(* Properties of the intersection dispatch                                 *)

IsAscending(s) == \A i \in 1..(Len(s) - 1) : RatLeq(s[i], s[i + 1])
IsStrictlyAscending(s) == \A i \in 1..(Len(s) - 1) : RatLess(s[i], s[i + 1])
Count(v, s) == Cardinality({i \in 1..Len(s) : s[i] = v})

IsQuery == call.fn \in {"line", "ray", "polyline"}

\* the result of the query of the current call against one shape g
Answer(g) ==
  CASE call.fn = "line" -> Ok(line(call.query, g))
    [] call.fn = "ray" -> Ok(ray(call.query, g))
    [] call.fn = "polyline" -> polyline(call.query, g)

\* C1: whatever the query kind and the target, the returned parameters are in
\* ascending order.
C1_AlwaysAscending == (IsQuery /\ ret.ok) => IsAscending(ret.value)

\* C3: for a list target the result is the ascending merge of the results for
\* the elements: it is ascending, and every value occurs in it as many times as
\* in the elements' results together.
C3_ListIsMerge ==
  (IsQuery /\ call.target.kind = "Array"
     /\ \A i \in 1..Len(call.target.items) : Answer(call.target.items[i]).ok) =>
    LET parts == [i \in 1..Len(call.target.items) |->
                    Answer(call.target.items[i]).value]
        sum(v) == Count(v, Flatten(parts))
    IN  /\ ret.ok
        /\ IsAscending(ret.value)
        /\ \A v \in Range(ret.value) \cup UNION {Range(parts[i]) : i \in 1..Len(parts)} :
             Count(v, ret.value) = sum(v)

\* a polyline query against a list of two shapes that both hit, at a common
\* parameter, which the result holds twice
C3_Witness ==
  /\ call.fn = "polyline" /\ call.target.kind = "Array" /\ ret.ok
  /\ Len(call.target.items) = 2
  /\ call.target.items[1] # call.target.items[2]
  /\ \E v \in Range(ret.value) :
       /\ Count(v, Answer(call.target.items[1]).value) = 1
       /\ Count(v, Answer(call.target.items[2]).value) = 1
       /\ Count(v, ret.value) = 2

\* C4: a polyline query against a single target returns no parameter twice.
C4_NoDuplicates ==
  (call.fn = "polyline" /\ call.target.kind # "Array" /\ ret.ok) =>
    IsStrictlyAscending(ret.value)

\* a target through the vertex shared by two segments of the query: the
\* segments report more hits than the result holds
C4_Witness ==
  /\ call.fn = "polyline" /\ call.target.kind # "Array" /\ ret.ok
  /\ ret.value # <<>>
  /\ Len(segmentHits(call.query, call.target)) > Len(ret.value)

\* C5: every parameter p a closed polyline query with n segments returns
\* satisfies 0 <= p < n.
C5_BelowSegmentCount ==
  (call.fn = "polyline" /\ call.query.isClosed /\ ret.ok) =>
    \A i \in 1..Len(ret.value) :
      /\ RatLeq(RatInt(0), ret.value[i])
      /\ RatLess(ret.value[i], RatInt(Len(segments(call.query))))

\* C6: the dispatch never raises; a target of none of the eight kinds yields
\* the empty list.
C6_NeverRaises ==
  IsQuery => /\ ret.ok
             /\ call.target.kind = "Unknown" => ret.value = <<>>

-----------------------------------------------------------------------------
(* Properties of Polygon                                                   *)

\* C2: contains returns the boundary's answer unless that is inside; then the
\* answer of the first hole that does not report outside decides (inside a
\* hole: outside, coincident with it: coincident), and the point is inside
\* when every hole reports outside.  The square with the square hole
\* classifies its centre outside, (0.5,0.5) inside and the hole's corner
\* coincident.
C2_Classification ==
  call.fn = "contains" =>
    LET boundaryContainment == polylineContains(call.polygon.boundary, call.point)
        n == Len(call.polygon.holes)
        holeContainment(i) == polylineContains(call.polygon.holes[i], call.point)
        first == {i \in 1..n : /\ holeContainment(i) # "outside"
                               /\ \A j \in 1..(i - 1) : holeContainment(j) = "outside"}
    IN  /\ boundaryContainment # "inside" => ret.value = boundaryContainment
        /\ (boundaryContainment = "inside" /\ first = {}) => ret.value = "inside"
        /\ \A i \in first :
             boundaryContainment = "inside" =>
               ret.value = IF holeContainment(i) = "inside"
                           THEN "outside" ELSE "coincident"
        /\ call.polygon = Polygon(Outer, <<HoleA>>).value =>
             /\ call.point = Pt(4, 4) => ret.value = "outside"
             /\ call.point = Pt(1, 1) => ret.value = "inside"
             /\ call.point = Pt(2, 2) => ret.value = "coincident"

\* a point on the edge of the first hole and inside the second
C2_Witness ==
  /\ call.fn = "contains"
  /\ Len(call.polygon.holes) = 2
  /\ polylineContains(call.polygon.boundary, call.point) = "inside"
  /\ polylineContains(call.polygon.holes[1], call.point) = "coincident"
  /\ polylineContains(call.polygon.holes[2], call.point) = "inside"
  /\ ret.value = "coincident"

InvalidGeometry ==
  {"Error: Boundary must be closed to turn into polygon",
   "Error: Hole must be closed to turn into polygon"}

RingClosed(ring) == Len(ring) > 1 /\ ring[1] = ring[Len(ring)]

\* C7: construction fails with an InvalidGeometry error exactly when the
\* boundary or a hole is not closed; fromCoords fails with a RangeError on an
\* empty ring list; every other construction succeeds.
C7_ConstructionErrors ==
  /\ call.fn = "Polygon" =>
       IF call.boundary.isClosed
          /\ \A i \in 1..Len(call.holes) : call.holes[i].isClosed
       THEN ret.ok /\ ret.value.kind = "Polygon"
       ELSE ~ret.ok /\ ret.error \in InvalidGeometry
  /\ call.fn = "fromCoords" =>
       IF Len(call.coordinates) = 0
       THEN ~ret.ok /\ ret.error = "RangeError: Coordiante of polygon must have a length"
       ELSE IF \A i \in 1..Len(call.coordinates) : RingClosed(call.coordinates[i])
       THEN ret.ok /\ ret.value.kind = "Polygon"
       ELSE ~ret.ok /\ ret.error \in InvalidGeometry

\* a closed boundary with a closed first hole and an open second hole
C7_Witness ==
  /\ call.fn = "Polygon"
  /\ call.boundary.isClosed
  /\ Len(call.holes) = 2
  /\ call.holes[1].isClosed /\ ~call.holes[2].isClosed
  /\ ~ret.ok

Canonical(polygon) ==
  /\ orientation(polygon.boundary) = "counterclockwise"
  /\ \A i \in 1..Len(polygon.holes) : orientation(polygon.holes[i]) = "clockwise"

\* C8: every polygon the constructor, fromCoords, transform, union,
\* intersection or difference returns has a counter-clockwise boundary and
\* clockwise holes.
C8_Orientation ==
  /\ held # NoPolygon => Canonical(held)
  /\ (call.fn \in {"Polygon", "fromCoords", "transform"} /\ ret.ok) =>
       Canonical(ret.value)
  /\ (IsBoolean /\ ret.ok) => \A i \in 1..Len(ret.value) : Canonical(ret.value[i])

NonEmpty(piece) == Len(piece) > 0

\* the polyline runs through the ring's positions, forwards or backwards
SameLoop(pl, ring) ==
  /\ pl.isClosed
  /\ \/ pl.points = SubSeq(ring, 1, Len(ring) - 1)
     \/ pl.points = Reverse(SubSeq(ring, 1, Len(ring) - 1))

\* C9: a boolean operation returns one polygon per piece of the clipping
\* primitive that has rings, in the primitive's order: the piece's first ring
\* is its boundary and the other rings, in order, are its holes.
C9_OnePolygonPerPiece ==
  (IsBoolean /\ toMulti(call.operand).ok) =>
    LET pieces == SelectSeq(call.pcResult, NonEmpty)
    IN  /\ ret.ok
        /\ Len(ret.value) = Len(pieces)
        /\ \A k \in 1..Len(pieces) :
             /\ SameLoop(ret.value[k].boundary, pieces[k][1])
             /\ Len(ret.value[k].holes) = Len(pieces[k]) - 1
             /\ \A j \in 1..(Len(pieces[k]) - 1) :
                  SameLoop(ret.value[k].holes[j], pieces[k][j + 1])

\* the primitive returns a piece without rings and a piece of three rings
C9_Witness ==
  /\ IsBoolean /\ ret.ok
  /\ Len(call.pcResult) = 2
  /\ call.pcResult[1] = <<>>
  /\ Len(call.pcResult[2]) = 3
  /\ Len(ret.value) = 1
  /\ Len(ret.value[1].holes) = 2

\* C10: a polygon operand converts to its boundary ring followed by its hole
\* rings, a polyline to a single ring, a list of k polylines or polygons to k
\* entries, also for k = 0; the operation fails only on an operand that is no
\* polyline, polygon or list of them.
C10_OperandConversion ==
  IsBoolean =>
    /\ call.operand.kind = "Polygon" =>
         toMulti(call.operand) = Ok(asGeoJSON(call.operand))
    /\ call.operand.kind = "Polyline" =>
         toMulti(call.operand) = Ok(<<polylineAsGeoJSON(call.operand)>>)
    /\ call.operand.kind = "Array" =>
         /\ toMulti(call.operand).ok
         /\ Len(toMulti(call.operand).value) = Len(call.operand.items)
    /\ ~ret.ok => call.operand.kind \notin {"Polygon", "Polyline", "Array"}

-----------------------------------------------------------------------------
(* Properties of polygon, box and polyline targets                         *)

\* the result of the current line or ray call against a polyline alone
LoopAnswer(pl) ==
  IF call.fn = "line" THEN line(call.query, pl) ELSE ray(call.query, pl)

\* C11: for a line or ray query against a polygon, the result is the ascending
\* concatenation of the polyline results for the boundary and for every hole,
\* each loop rejected only by its own bounding box.
C11_LoopsIndependent ==
  (call.fn \in {"line", "ray"} /\ call.target.kind = "Polygon") =>
    ret.value =
      SortAsc(LoopAnswer(call.target.boundary)
              \o Flatten([i \in 1..Len(call.target.holes) |->
                            LoopAnswer(call.target.holes[i])]))

\* the closed polyline through the corners (min,min), (max,min), (max,max),
\* (min,max) of a box or rectangle
FourSegmentLoop(b) ==
  Polyline(<<Pt(b.xmin, b.ymin), Pt(b.xmax, b.ymin),
             Pt(b.xmax, b.ymax), Pt(b.xmin, b.ymax)>>, TRUE)

\* C12: for a box or rectangle target and any query kind, the result is the
\* result of the same query against the closed 4-segment polyline through the
\* target's corners; the line from (-1,1) to (5,1) meets the box (0,0)-(4,4)
\* at exactly two parameters, the hit at x = 0 and then the hit at x = 4.
C12_BoxAsPolyline ==
  /\ (IsQuery /\ call.target.kind \in {"BoundingBox", "Rectangle"}) =>
       ret = Answer(FourSegmentLoop(call.target))
  /\ (call.fn = "line" /\ call.query = ExampleLine /\ call.target = ExampleBox) =>
       /\ ret.value = <<Rat(1, 6), Rat(5, 6)>>
       /\ pointAt(ExampleLine.from, Sub(ExampleLine.to, ExampleLine.from),
                  ret.value[1]) = <<RatInt(0), RatInt(1)>>
       /\ pointAt(ExampleLine.from, Sub(ExampleLine.to, ExampleLine.from),
                  ret.value[2]) = <<RatInt(4), RatInt(1)>>

\* the example line has been intersected with the example box
C12_Witness ==
  /\ call.fn = "line" /\ call.query = ExampleLine /\ call.target = ExampleBox
  /\ Len(ret.value) = 2

-----------------------------------------------------------------------------
(* Properties of the bounding box                                          *)

\* the coordinates around the boxes
Coordinates == -1..(Max({Grid, ExampleBox.xmax}) + 1)
Covers(lo, hi, v) == lo <= v /\ v <= hi

\* C13: the intersection of two boxes is undefined exactly when their
\* x-ranges or their y-ranges share no value; otherwise it is the box whose
\* ranges hold the values both x-ranges, and both y-ranges, hold, so that of
\* a box and a box inside it is the inner box.
C13_BoxIntersection ==
  call.fn = "boxIntersection" =>
    LET a == call.a
        b == call.b
        r == ret.value
        xShared == {v \in Coordinates : Covers(a.xmin, a.xmax, v)
                                          /\ Covers(b.xmin, b.xmax, v)}
        yShared == {v \in Coordinates : Covers(a.ymin, a.ymax, v)
                                          /\ Covers(b.ymin, b.ymax, v)}
    IN  /\ r = Undefined <=> (xShared = {} \/ yShared = {})
        /\ r # Undefined =>
             /\ r.kind = "BoundingBox"
             /\ {v \in Coordinates : Covers(r.xmin, r.xmax, v)} = xShared
             /\ {v \in Coordinates : Covers(r.ymin, r.ymax, v)} = yShared
        /\ (/\ a.xmin <= b.xmin /\ b.xmax <= a.xmax
            /\ a.ymin <= b.ymin /\ b.ymax <= a.ymax) => r = b

\* two boxes with overlapping corners have been intersected
C13_Witness ==
  /\ call.fn = "boxIntersection"
  /\ ret.value # Undefined
  /\ ret.value \notin {call.a, call.b}
  /\ ret.value.xmin < ret.value.xmax /\ ret.value.ymin < ret.value.ymax

\* C14: BoundingBox.contains is true exactly for the points within
\* [min - tolerance, max + tolerance] on both axes, less, with strict, the
\* points on an edge of the box; so an interior point is contained in both
\* modes, a point outside those ranges (without a tolerance, every exterior
\* point) in neither, and an edge point only when not strict.
C14_BoxContains ==
  call.fn = "boxContains" =>
    LET b == call.box
        p == call.point
        tol == call.tolerance
        widened == /\ Covers(b.xmin - tol, b.xmax + tol, p.x)
                   /\ Covers(b.ymin - tol, b.ymax + tol, p.y)
        inside == /\ b.xmin < p.x /\ p.x < b.xmax
                  /\ b.ymin < p.y /\ p.y < b.ymax
        outside == \/ p.x < b.xmin \/ p.x > b.xmax
                   \/ p.y < b.ymin \/ p.y > b.ymax
        edge == ~inside /\ ~outside
    IN  /\ ~call.strict => (ret.value <=> widened)
        /\ call.strict => (ret.value <=> (widened /\ ~edge))
        /\ inside => ret.value
        /\ ~widened => ~ret.value
        /\ (tol = 0 /\ outside) => ~ret.value
        /\ edge => (ret.value <=> ~call.strict)

\* a point on an edge of a box has been tested in strict mode with a tolerance
C14_Witness ==
  /\ call.fn = "boxContains" /\ call.strict /\ call.tolerance = 1
  /\ call.box.xmin < call.box.xmax /\ call.box.ymin < call.box.ymax
  /\ call.point.x = call.box.xmin
  /\ call.box.ymin < call.point.y /\ call.point.y < call.box.ymax
  /\ ~ret.value

-----------------------------------------------------------------------------
(* Properties of the polygon's area                                        *)

RECURSIVE SumOfAreas(_, _)
SumOfAreas(loops, i) ==
  IF i > Len(loops) THEN RatInt(0)
  ELSE LET rest == SumOfAreas(loops, i + 1)
           this == polylineArea(loops[i])
       IN  Rat(this[1] * rest[2] + rest[1] * this[2], this[2] * rest[2])

\* C15: the area of every polygon that can be constructed is the area of its
\* boundary less the sum of the areas of its holes, and it is not negative.
C15_AreaNonNegative ==
  call.fn = "area" =>
    /\ ret.value = RatSub(polylineArea(call.polygon.boundary),
                          SumOfAreas(call.polygon.holes, 1))
    /\ RatLeq(RatInt(0), ret.value)

-----------------------------------------------------------------------------
(* Properties of line and ray queries against polylines and polygons       *)

\* what the pairwise solver says of the query of the current call and one
\* segment: whether they meet, and the query's own parameter of the hit
SolverMeets(seg) ==
  IF call.fn = "line" THEN lineLine(call.query, seg).intersects
  ELSE rayLine(call.query, seg).intersects
SolverParameter(seg) ==
  IF call.fn = "line" THEN lineLine(call.query, seg).lineAU
  ELSE rayLine(call.query, seg).rayU

\* the query's parameters over all segments of a polyline, in segment order
SolverHits(pl) ==
  Flatten([i \in 1..Len(segments(pl)) |->
             IF SolverMeets(segments(pl)[i])
             THEN <<SolverParameter(segments(pl)[i])>> ELSE <<>>])

\* the bounding box test of the current line or ray call on a polyline
BoxTest(pl) ==
  IF call.fn = "line" THEN lineBox(call.query, boundingBox(pl)).intersects
  ELSE rayBox(call.query, boundingBox(pl)).intersects

\* C16: the bounding box test of a line or ray query against a polyline
\* loses no hit: the result is the ascending list of the query's parameters
\* over all segments of the polyline, so nothing is met when the test fails.
C16_NoFalseNegative ==
  (call.fn \in {"line", "ray"} /\ call.target.kind = "Polyline") =>
    /\ ret.value = SortAsc(SolverHits(call.target))
    /\ ~BoxTest(call.target) =>
         \A i \in 1..Len(segments(call.target)) :
           ~SolverMeets(segments(call.target)[i])

\* a polyline has been rejected by its bounding box
C16_Witness ==
  /\ call.fn \in {"line", "ray"} /\ call.target.kind = "Polyline"
  /\ ~BoxTest(call.target)

\* the loops of a polyline or polygon target
TargetLoops ==
  IF call.target.kind = "Polygon"
  THEN <<call.target.boundary>> \o call.target.holes
  ELSE <<call.target>>

SegmentsMet(pl) ==
  Cardinality({i \in 1..Len(segments(pl)) : SolverMeets(segments(pl)[i])})

RECURSIVE Total(_, _)
Total(counts, i) ==
  IF i > Len(counts) THEN 0 ELSE counts[i] + Total(counts, i + 1)

\* C17: a line or ray query against a polyline or polygon that the bounding
\* box test lets through returns one parameter for every segment of the
\* target the solver reports a hit on, equal parameters included, and each
\* is the query's own parameter of that hit.
C17_NoDeduplication ==
  (/\ call.fn \in {"line", "ray"}
   /\ call.target.kind \in {"Polyline", "Polygon"}
   /\ BoxTest(TargetLoops[1])) =>
    /\ Len(ret.value) =
         Total([k \in 1..Len(TargetLoops) |-> SegmentsMet(TargetLoops[k])], 1)
    /\ ret.value =
         SortAsc(Flatten([k \in 1..Len(TargetLoops) |-> SolverHits(TargetLoops[k])]))

\* a line through a vertex of a polyline has met both segments there
C17_Witness ==
  /\ call.fn = "line" /\ call.target.kind = "Polyline"
  /\ Len(ret.value) = 2
  /\ ret.value[1] = ret.value[2]
  /\ ret.value[1] \notin {RatInt(0), RatInt(1)}

====
